---- MODULE Spec2Model ----
(***************************************************************************)
(* IframeBridge (class IframeBridge of src/IframeBridge.ts): one hub       *)
(* endpoint ("main") and its leaf endpoints, exchanging envelopes over     *)
(* window.postMessage.                                                     *)
(*                                                                         *)
(* Every action is one run-to-completion segment of the JavaScript event   *)
(* loop: a native "message" event handler, a public API call, or the       *)
(* continuation of an async function after an await.                       *)
(*                                                                         *)
(* Values.  A JavaScript string is the sequence of its code points.  A     *)
(* payload is a record [t, v]: t = "null" (null or undefined), "str" (v is *)
(* the string) or "obj" (v is the JSON text of the structured value).      *)
(* A missing or empty string field of an envelope is "", a missing path    *)
(* is << >> (the code reads both through truthiness / Array.isArray).      *)
(***************************************************************************)
EXTENDS Integers, Sequences, FiniteSets, TLC

----------------------------------------------------------------------------
(* Bounds of the model                                                     *)

\* native events the surrounding frames may dispatch at the hub window
MaxEnvEvents == 2
\* public sendMessage calls over all endpoints
MaxSends == 1

----------------------------------------------------------------------------
(* Identities, windows, origins                                            *)

DEFAULT_MAIN_ID == "main"

LeafIds == {"childA", "childB"}
SoloLeaf == {"childA"}

\* the window of each leaf, and a window that is no iframe of the hub page
WinOf(l) == IF l = "childA" THEN "wA" ELSE "wB"
StrayWindow == "wX"
NoWindow == ""

HubOrigin == "https://hub"
GoodOrigin == "https://good"
BadOrigin == "https://bad"
AnyOrigin == "*"

\* the origin of the document loaded in a window
WindowOrigin(w) == IF w = "wA" THEN HubOrigin ELSE IF w = "wB" THEN GoodOrigin ELSE BadOrigin

\* the `origin` option each leaf is constructed with
LeafOrigin(l) == IF l = "childA" THEN HubOrigin ELSE AnyOrigin

----------------------------------------------------------------------------
(* Strings as code points                                                  *)

Colon == 58
MarkerS == 115
MarkerO == 111

\* "hi"
TextHi == <<104, 105>>
\* "s:aGk=", a text that reads as the transport form of "hi"
TextLooksEncoded == <<115, 58, 97, 71, 107, 61>>
\* "h\u00e9\u4f60": code points of two and three bytes in UTF-8
TextMultiByte == <<104, 233, 20320>>

\* "success"
SuccessText == <<115, 117, 99, 99, 101, 115, 115>>
\* {"x":1} and {"x":2}
JsonX1 == <<123, 34, 120, 34, 58, 49, 125>>
JsonX2 == <<123, 34, 120, 34, 58, 50, 125>>

NullVal == [t |-> "null", v |-> << >>]
StrVal(s) == [t |-> "str", v |-> s]
ObjVal(j) == [t |-> "obj", v |-> j]

\* the structured values of the model, by their JSON text
KnownJson == {JsonX1, JsonX2}

----------------------------------------------------------------------------
(* TextEncoder / TextDecoder / btoa / atob                                 *)

Utf8OfChar(c) ==
    IF c < 128 THEN <<c>>
    ELSE IF c < 2048 THEN <<192 + (c \div 64), 128 + (c % 64)>>
    ELSE <<224 + (c \div 4096), 128 + ((c \div 64) % 64), 128 + (c % 64)>>

RECURSIVE Utf8Encode(_)
Utf8Encode(s) ==
    IF s = << >> THEN << >> ELSE Utf8OfChar(Head(s)) \o Utf8Encode(Tail(s))

IsCont(b) == b >= 128 /\ b < 192

RECURSIVE Utf8Decode(_)
Utf8Decode(b) ==
    IF b = << >> THEN << >>
    ELSE LET b0 == b[1] IN
         IF b0 < 128 THEN <<b0>> \o Utf8Decode(Tail(b))
         ELSE IF b0 >= 194 /\ b0 < 224 /\ Len(b) >= 2 /\ IsCont(b[2])
              THEN <<(b0 - 192) * 64 + (b[2] - 128)>> \o Utf8Decode(SubSeq(b, 3, Len(b)))
         ELSE IF b0 >= 224 /\ b0 < 240 /\ Len(b) >= 3 /\ IsCont(b[2]) /\ IsCont(b[3])
                   /\ (b0 - 224) * 4096 + (b[2] - 128) * 64 + (b[3] - 128) >= 2048
              THEN <<(b0 - 224) * 4096 + (b[2] - 128) * 64 + (b[3] - 128)>>
                   \o Utf8Decode(SubSeq(b, 4, Len(b)))
         ELSE <<65533>> \o Utf8Decode(Tail(b))

\* the base64 alphabet: A-Z a-z 0-9 + /
B64Char(i) ==
    IF i < 26 THEN 65 + i
    ELSE IF i < 52 THEN 97 + (i - 26)
    ELSE IF i < 62 THEN 48 + (i - 52)
    ELSE IF i = 62 THEN 43 ELSE 47

IsB64Char(c) ==
    \/ c >= 65 /\ c <= 90
    \/ c >= 97 /\ c <= 122
    \/ c >= 48 /\ c <= 57
    \/ c = 43
    \/ c = 47

B64Index(c) ==
    IF c >= 65 /\ c <= 90 THEN c - 65
    ELSE IF c >= 97 /\ c <= 122 THEN c - 97 + 26
    ELSE IF c >= 48 /\ c <= 57 THEN c - 48 + 52
    ELSE IF c = 43 THEN 62 ELSE 63

RECURSIVE Btoa(_)
Btoa(b) ==
    IF b = << >> THEN << >>
    ELSE IF Len(b) = 1 THEN
        <<B64Char(b[1] \div 4), B64Char((b[1] % 4) * 16), 61, 61>>
    ELSE IF Len(b) = 2 THEN
        <<B64Char(b[1] \div 4), B64Char((b[1] % 4) * 16 + (b[2] \div 16)),
          B64Char((b[2] % 16) * 4), 61>>
    ELSE
        <<B64Char(b[1] \div 4), B64Char((b[1] % 4) * 16 + (b[2] \div 16)),
          B64Char((b[2] % 16) * 4 + (b[3] \div 64)), B64Char(b[3] % 64)>>
        \o Btoa(SubSeq(b, 4, Len(b)))

\* atob strips up to two trailing '=' of a text whose length is a multiple of 4
StripPad(s) ==
    IF Len(s) % 4 = 0 /\ Len(s) >= 1 /\ s[Len(s)] = 61
    THEN IF Len(s) >= 2 /\ s[Len(s) - 1] = 61
         THEN SubSeq(s, 1, Len(s) - 2)
         ELSE SubSeq(s, 1, Len(s) - 1)
    ELSE s

\* atob throws InvalidCharacterError on these
AtobThrows(s) ==
    LET d == StripPad(s) IN
    \/ Len(d) % 4 = 1
    \/ \E i \in 1..Len(d) : ~IsB64Char(d[i])

RECURSIVE AtobBytes(_)
AtobBytes(d) ==
    IF Len(d) < 2 THEN << >>
    ELSE IF Len(d) = 2 THEN
        <<B64Index(d[1]) * 4 + (B64Index(d[2]) \div 16)>>
    ELSE IF Len(d) = 3 THEN
        <<B64Index(d[1]) * 4 + (B64Index(d[2]) \div 16),
          (B64Index(d[2]) % 16) * 16 + (B64Index(d[3]) \div 4)>>
    ELSE
        <<B64Index(d[1]) * 4 + (B64Index(d[2]) \div 16),
          (B64Index(d[2]) % 16) * 16 + (B64Index(d[3]) \div 4),
          (B64Index(d[3]) % 4) * 64 + B64Index(d[4])>>
        \o AtobBytes(SubSeq(d, 5, Len(d)))

Atob(s) == AtobBytes(StripPad(s))

\* String.prototype.indexOf(':'), 0 when there is none (positions from 1)
RECURSIVE IndexOfColonFrom(_, _)
IndexOfColonFrom(s, i) ==
    IF i > Len(s) THEN 0
    ELSE IF s[i] = Colon THEN i
    ELSE IndexOfColonFrom(s, i + 1)

IndexOfColon(s) == IndexOfColonFrom(s, 1)

----------------------------------------------------------------------------
(* The codec                                                               *)

\* enCodeMessage: null for null/undefined, else "<marker>:<base64>"
enCodeMessage(payload) ==
    IF payload.t = "null" THEN NullVal
    ELSE LET marker == IF payload.t = "str" THEN MarkerS ELSE MarkerO
             content == payload.v
         IN StrVal(<<marker, Colon>> \o Btoa(Utf8Encode(content)))

\* JSON.parse over the structured values of the model
JsonParses(text) == text \in KnownJson

\* deCodeMessage: null unless a string holding ':' whose tail is base64
deCodeMessage(encoded) ==
    IF encoded.t # "str" THEN NullVal
    ELSE LET idx == IndexOfColon(encoded.v) IN
         IF idx = 0 THEN NullVal
         ELSE LET marker == SubSeq(encoded.v, 1, idx - 1)
                  base64 == SubSeq(encoded.v, idx + 1, Len(encoded.v))
              IN IF AtobThrows(base64) THEN NullVal
                 ELSE LET decodedStr == Utf8Decode(Atob(base64)) IN
                      IF marker = <<MarkerO>> /\ JsonParses(decodedStr)
                      THEN ObjVal(decodedStr)
                      ELSE StrVal(decodedStr)

----------------------------------------------------------------------------
(* Envelopes and native events                                             *)

EncUndefined == "undefined"
EncTrue == "true"
EncFalse == "false"

\* timestamps: Date.now() is 0 for every envelope an endpoint builds; the n-th
\* native event a surrounding frame dispatches carries timestamp n
NoTimestamp == -1
Now == 0

\* IframeMessage; a partial message leaves fields missing
Envelope(type, key, sourceId, targetId, origin, path, data, encoded, timestamp) ==
    [type |-> type, key |-> key, sourceId |-> sourceId, targetId |-> targetId,
     origin |-> origin, path |-> path, data |-> data, encoded |-> encoded,
     timestamp |-> timestamp]

\* the caller's { targetId, data }
Partial(targetId, data) ==
    Envelope("", "", "", targetId, "", << >>, data, EncUndefined, NoTimestamp)

\* MessageEvent: e.data is absent when hasData is FALSE
Event(hasData, data, source) ==
    [hasData |-> hasData, data |-> data, origin |-> WindowOrigin(source), source |-> source]

NoData == Partial("", NullVal)

InPath(id, path) == \E i \in 1..Len(path) : path[i] = id

----------------------------------------------------------------------------
(* State                                                                   *)

Endpoints == {DEFAULT_MAIN_ID} \cup LeafIds

VARIABLES
    hubIframeId,          \* hub: this.iframeId
    originWhitelist,      \* hub: << >> is undefined (no origin check)
    messageCallback,      \* per endpoint: a subscriber is installed
    messageCallbackReady, \* per endpoint: the promise messageCallbackReady is settled
    destroyed,            \* hub: _destroyed
    registeredIframe,     \* hub: id -> [iframe, origin]
    messageQueue,         \* hub
    registerQueue,        \* hub: entries [source, msg]
    isHandlingRegister,   \* hub
    isHandlingMessage,    \* hub
    registerRun,          \* hub: the registerIframe() call in flight
    messageRun,           \* hub: the handleMessage() call in flight
    messageTicks,         \* hub: handleMessage() calls waiting in the microtask queue
    leafUp,               \* per leaf: constructed
    leafRun,              \* per leaf: handleMessage(message) calls suspended at their await
    hubInbox,             \* events posted to the hub window, not yet dispatched
    leafInbox,            \* per leaf: events posted to its window, not yet dispatched
    dom,                  \* windows whose iframe element is in the hub document
    delivered,            \* per endpoint: envelopes its subscriber was invoked with
    fx,                   \* what the last step did: op, its argument, posts, log lines,
                          \* subscriber calls, and the message of the error it threw
    nEnv,                 \* native events dispatched by the surrounding frames so far
    sendCalls             \* the public sendMessage calls so far: caller, argument, and
                          \* whether the hub could route it when it was made

hubVars == <<hubIframeId, originWhitelist, destroyed, registeredIframe, messageQueue,
             registerQueue, isHandlingRegister, isHandlingMessage, registerRun,
             messageRun, messageTicks>>

vars == <<hubIframeId, originWhitelist, messageCallback, messageCallbackReady,
          destroyed, registeredIframe, messageQueue, registerQueue, isHandlingRegister, isHandlingMessage, registerRun, messageRun,
          messageTicks, leafUp, leafRun, hubInbox, leafInbox, dom, delivered, fx,
          nEnv, sendCalls>>

IsRegistered(reg, id) == id \in DOMAIN reg

\* target?.iframe?.contentWindow: the record holds an element still in the document
HasLiveWindow(reg, id, d) ==
    /\ IsRegistered(reg, id)
    /\ reg[id].iframe # NoWindow
    /\ reg[id].iframe \in d

----------------------------------------------------------------------------
(* Envelope Builder and Path Tracker                                       *)

addMessagePath(iframeId, path) ==
    IF InPath(iframeId, path) THEN path ELSE Append(path, iframeId)

\* createMessage, for the endpoint (iframeId, origin)
createMessage(iframeId, origin, message, type) ==
    LET raw == message.data
        inferred == IF message.encoded = EncUndefined
                    THEN (IF enCodeMessage(raw).t # "null" THEN EncTrue ELSE EncFalse)
                    ELSE message.encoded
        mustEncode == inferred # EncTrue /\ raw.t # "null"
    IN Envelope(type,
                "gen",
                IF message.sourceId # "" THEN message.sourceId ELSE iframeId,
                IF message.targetId # "" THEN message.targetId ELSE DEFAULT_MAIN_ID,
                origin,
                addMessagePath(iframeId, message.path),
                IF mustEncode THEN enCodeMessage(raw) ELSE raw,
                IF mustEncode THEN EncTrue ELSE inferred,
                Now)

----------------------------------------------------------------------------
(* sendMessage                                                             *)

NoFx == [posts |-> << >>, log |-> << >>, calls |-> << >>, thrown |-> ""]

Post(from, to, targetOrigin, data) ==
    [from |-> from, to |-> to, targetOrigin |-> targetOrigin, data |-> data]

\* a hub that falls back to the first iframe of the document when the target is
\* not in the routing table
HubSendMessageFallback(message, type, reg, d) ==
    LET made == IF message.key # "" THEN message
                ELSE createMessage(DEFAULT_MAIN_ID, HubOrigin, message, type)
        built == [made EXCEPT !.path = addMessagePath(DEFAULT_MAIN_ID, made.path)]
    IN IF made.targetId = DEFAULT_MAIN_ID
       THEN [NoFx EXCEPT !.log = <<"warn: send to itself">>]
       ELSE IF HasLiveWindow(reg, built.targetId, d)
       THEN [NoFx EXCEPT !.posts =
                <<Post("top", reg[built.targetId].iframe, reg[built.targetId].origin, built)>>]
       ELSE [NoFx EXCEPT !.posts = <<Post("top", "wA", AnyOrigin, built)>>]

\* a hub that addresses every post with the wildcard
HubSendMessageWildcard(message, type, reg, d) ==
    LET made == IF message.key # "" THEN message
                ELSE createMessage(DEFAULT_MAIN_ID, HubOrigin, message, type)
        built == [made EXCEPT !.path = addMessagePath(DEFAULT_MAIN_ID, made.path)]
    IN IF made.targetId = DEFAULT_MAIN_ID
       THEN [NoFx EXCEPT !.log = <<"warn: send to itself">>]
       ELSE IF HasLiveWindow(reg, built.targetId, d)
       THEN [NoFx EXCEPT !.posts =
                <<Post("top", reg[built.targetId].iframe, AnyOrigin, built)>>]
       ELSE [NoFx EXCEPT !.log = <<"warn: target not found or not bound">>]

\* sendMessage of the hub: what it posts, logs and hands to its subscriber
HubSendMessage(message, type, reg, d) ==
    LET made == IF message.key # "" THEN message
                ELSE createMessage(DEFAULT_MAIN_ID, HubOrigin, message, type)
        built == [made EXCEPT !.path = addMessagePath(DEFAULT_MAIN_ID, made.path)]
    IN IF made.targetId = DEFAULT_MAIN_ID
       THEN [NoFx EXCEPT !.log = <<"warn: send to itself">>]
       ELSE IF HasLiveWindow(reg, built.targetId, d)
       THEN [NoFx EXCEPT !.posts =
                <<Post("top", reg[built.targetId].iframe, reg[built.targetId].origin, built)>>]
       ELSE [NoFx EXCEPT !.log = <<"warn: target not found or not bound">>]

\* a leaf that does not compare the target with its own id
LeafSendMessageNoSelfCheck(l, message, type) ==
    [NoFx EXCEPT !.posts =
        <<Post(WinOf(l), "parent", LeafOrigin(l),
               IF message.key # ""
               THEN [message EXCEPT !.path = addMessagePath(l, message.path)]
               ELSE message)>>]

\* sendMessage of a leaf: the object handed to window.parent.postMessage is `message`
LeafSendMessage(l, message, type) ==
    LET made == IF message.key # "" THEN message
                ELSE createMessage(l, LeafOrigin(l), message, type)
    IN IF made.targetId = l
       THEN [NoFx EXCEPT !.log = <<"warn: send to itself">>]
       ELSE [NoFx EXCEPT !.posts =
                <<Post(WinOf(l), "parent", LeafOrigin(l),
                       IF message.key # ""
                       THEN [message EXCEPT !.path = addMessagePath(l, message.path)]
                       ELSE message)>>]

----------------------------------------------------------------------------
(* Registration (hub)                                                      *)

IdleRegister ==
    [pc |-> "idle", queue |-> << >>, sourceId |-> "", origin |-> "", type |-> "",
     successMsg |-> NoData, error |-> ""]

\* bindingIframe: the iframe element whose contentWindow is the event's source
bindingIframe(sourceWindow, d) ==
    IF sourceWindow # NoWindow /\ sourceWindow \in d THEN sourceWindow ELSE NoWindow

\* a handleRegister that replaces the record of an id that registers again
handleRegisterOverwrite(entry, reg, d, whitelist) ==
    LET sourceId == entry.msg.sourceId
        origin == entry.msg.origin
    IN IF origin = "" \/ sourceId = ""
       THEN [error |-> "Invalid registration payload", reg |-> reg, successMsg |-> NoData]
       ELSE IF whitelist # << >> /\ ~(\E i \in 1..Len(whitelist) : whitelist[i] = origin)
       THEN [error |-> "Origin is not in the whitelist", reg |-> reg, successMsg |-> NoData]
       ELSE [error |-> "",
             reg |-> [x \in DOMAIN reg \cup {sourceId} |->
                        IF x = sourceId
                        THEN [id |-> sourceId, iframe |-> bindingIframe(entry.source, d),
                              origin |-> origin]
                        ELSE reg[x]],
             successMsg |-> createMessage(DEFAULT_MAIN_ID, HubOrigin,
                                          Partial(sourceId, StrVal(SuccessText)),
                                          entry.msg.type)]

\* a handleRegister that does not look for the required fields
handleRegisterNoRequiredFields(entry, reg, d, whitelist) ==
    LET sourceId == entry.msg.sourceId
        origin == entry.msg.origin
    IN IF whitelist # << >> /\ ~(\E i \in 1..Len(whitelist) : whitelist[i] = origin)
       THEN [error |-> "Origin is not in the whitelist", reg |-> reg, successMsg |-> NoData]
       ELSE IF ~IsRegistered(reg, sourceId)
       THEN [error |-> "",
             reg |-> (sourceId :> [id |-> sourceId,
                                   iframe |-> bindingIframe(entry.source, d),
                                   origin |-> origin]) @@ reg,
             successMsg |-> createMessage(DEFAULT_MAIN_ID, HubOrigin,
                                          Partial(sourceId, StrVal(SuccessText)),
                                          entry.msg.type)]
       ELSE [error |-> "Iframe already registered", reg |-> reg, successMsg |-> NoData]

\* handleRegister up to its await: the rejection, or the record and the acknowledgment
handleRegister(entry, reg, d, whitelist) ==
    LET sourceId == entry.msg.sourceId
        origin == entry.msg.origin
    IN IF origin = "" \/ sourceId = ""
       THEN [error |-> "Invalid registration payload", reg |-> reg, successMsg |-> NoData]
       ELSE IF whitelist # << >> /\ ~(\E i \in 1..Len(whitelist) : whitelist[i] = origin)
       THEN [error |-> "Origin is not in the whitelist", reg |-> reg, successMsg |-> NoData]
       ELSE IF ~IsRegistered(reg, sourceId)
       THEN [error |-> "",
             reg |-> (sourceId :> [id |-> sourceId,
                                   iframe |-> bindingIframe(entry.source, d),
                                   origin |-> origin]) @@ reg,
             successMsg |-> createMessage(DEFAULT_MAIN_ID, HubOrigin,
                                          Partial(sourceId, StrVal(SuccessText)),
                                          entry.msg.type)]
       ELSE [error |-> "Iframe already registered", reg |-> reg, successMsg |-> NoData]

\* the loop of registerIframe over its snapshot `queue`, up to the next await
RegisterLoop(queue, reg, d, whitelist) ==
    IF queue = << >>
    THEN [run |-> IdleRegister, reg |-> reg, busy |-> FALSE, log |-> << >>]
    ELSE LET r == handleRegister(Head(queue), reg, d, whitelist) IN
         [run |-> [pc |-> IF r.error = "" THEN "race" ELSE "settle",
                   queue |-> Tail(queue),
                   sourceId |-> Head(queue).msg.sourceId,
                   origin |-> Head(queue).msg.origin,
                   type |-> Head(queue).msg.type,
                   successMsg |-> r.successMsg,
                   error |-> r.error],
          reg |-> r.reg,
          busy |-> TRUE,
          log |-> IF r.error = "" THEN <<"log: page registered">> ELSE << >>]

\* a registerIframe that starts a drain whether or not one is in flight
registerIframeUnguarded(given, pending, busy, reg, d, whitelist) ==
    LET loop == RegisterLoop(IF given # << >> THEN given ELSE pending,
                             reg, d, whitelist)
    IN [run |-> loop.run, started |-> TRUE, busy |-> loop.busy,
        pending |-> IF given # << >> THEN pending ELSE << >>,
        reg |-> loop.reg, log |-> loop.log]

\* registerIframe(message?) up to its first await
registerIframe(given, pending, busy, reg, d, whitelist) ==
    IF busy
    THEN [run |-> IdleRegister, started |-> FALSE, busy |-> TRUE, pending |-> pending,
          reg |-> reg, log |-> << >>]
    ELSE LET loop == RegisterLoop(IF given # << >> THEN given ELSE pending,
                                  reg, d, whitelist)
         IN [run |-> loop.run, started |-> TRUE, busy |-> loop.busy,
             pending |-> IF given # << >> THEN pending ELSE << >>,
             reg |-> loop.reg, log |-> loop.log]

----------------------------------------------------------------------------
(* Message queue (hub)                                                     *)

IdleMessage == [pc |-> "idle", cur |-> NoData]

\* the loop of handleMessage() over messageQueue, up to the next await or the end
RECURSIVE MessageLoop(_, _, _, _)

\* a drain that takes the newest entry (pop) where the code takes the oldest (shift)
MessageLoopNewestFirst(queue, reg, d, acc) ==
    IF queue = << >>
    THEN [run |-> IdleMessage, queue |-> << >>, fx |-> acc]
    ELSE LET msg == queue[Len(queue)]
             rest == SubSeq(queue, 1, Len(queue) - 1)
         IN IF msg.targetId = DEFAULT_MAIN_ID
            THEN [run |-> [pc |-> "await",
                           cur |-> [msg EXCEPT !.data = deCodeMessage(msg.data)]],
                  queue |-> rest, fx |-> acc]
            ELSE LET sent == HubSendMessage(msg, msg.type, reg, d) IN
                 MessageLoop(rest, reg, d,
                             [acc EXCEPT !.posts = @ \o sent.posts, !.log = @ \o sent.log])

\* a drain that stops at a message it cannot forward and leaves it at the front of
\* the queue for a later attempt
MessageLoopKeepsUnknown(queue, reg, d, acc) ==
    IF queue = << >>
    THEN [run |-> IdleMessage, queue |-> << >>, fx |-> acc]
    ELSE LET msg == Head(queue) IN
         IF msg.targetId = DEFAULT_MAIN_ID
         THEN [run |-> [pc |-> "await", cur |-> [msg EXCEPT !.data = deCodeMessage(msg.data)]],
               queue |-> Tail(queue), fx |-> acc]
         ELSE IF ~HasLiveWindow(reg, msg.targetId, d)
         THEN [run |-> IdleMessage, queue |-> queue,
               fx |-> [acc EXCEPT !.log = @ \o <<"warn: target not found or not bound">>]]
         ELSE LET sent == HubSendMessage(msg, msg.type, reg, d) IN
              MessageLoop(Tail(queue), reg, d,
                          [acc EXCEPT !.posts = @ \o sent.posts, !.log = @ \o sent.log])

MessageLoop(queue, reg, d, acc) ==
    IF queue = << >>
    THEN [run |-> IdleMessage, queue |-> << >>, fx |-> acc]
    ELSE LET msg == Head(queue) IN
         IF msg.targetId = DEFAULT_MAIN_ID
         THEN [run |-> [pc |-> "await", cur |-> [msg EXCEPT !.data = deCodeMessage(msg.data)]],
               queue |-> Tail(queue), fx |-> acc]
         ELSE LET sent == HubSendMessage(msg, msg.type, reg, d) IN
              MessageLoop(Tail(queue), reg, d,
                          [acc EXCEPT !.posts = @ \o sent.posts, !.log = @ \o sent.log])

----------------------------------------------------------------------------
(* Effects of a step                                                       *)

Call(to, msg) == [to |-> to, msg |-> msg]

OriginMatches(targetOrigin, w) == targetOrigin = AnyOrigin \/ targetOrigin = WindowOrigin(w)

\* the events the posts of a step put in flight towards the hub window
RECURSIVE ToHub(_)
ToHub(posts) ==
    IF posts = << >> THEN << >>
    ELSE LET p == Head(posts) IN
         (IF p.to = "parent" /\ (p.targetOrigin = AnyOrigin \/ p.targetOrigin = HubOrigin)
          THEN <<Event(TRUE, p.data, p.from)>>
          ELSE << >>) \o ToHub(Tail(posts))

\* the events the posts of a step put in flight towards the window of leaf l
RECURSIVE ToLeaf(_, _)
ToLeaf(posts, l) ==
    IF posts = << >> THEN << >>
    ELSE LET p == Head(posts) IN
         (IF p.to = WinOf(l) /\ OriginMatches(p.targetOrigin, p.to)
          THEN <<[hasData |-> TRUE, data |-> p.data, origin |-> HubOrigin, source |-> "top"]>>
          ELSE << >>) \o ToLeaf(Tail(posts), l)

RECURSIVE CallsTo(_, _)
CallsTo(calls, who) ==
    IF calls = << >> THEN << >>
    ELSE (IF Head(calls).to = who THEN <<Head(calls).msg>> ELSE << >>)
         \o CallsTo(Tail(calls), who)

\* record what the step did; put its posts in flight; log its subscriber calls
Emit(op, who, msg, f, hubIn, leafIn) ==
    /\ fx' = [op |-> op, who |-> who, msg |-> msg,
              posts |-> f.posts, log |-> f.log, calls |-> f.calls, thrown |-> f.thrown]
    /\ hubInbox' = hubIn \o ToHub(f.posts)
    /\ leafInbox' = [l \in LeafIds |-> leafIn[l] \o ToLeaf(f.posts, l)]
    /\ delivered' = [x \in Endpoints |-> delivered[x] \o CallsTo(f.calls, x)]

----------------------------------------------------------------------------
(* Inputs                                                                  *)

\* a register request as a frame writes it: self-declared identity and origin
RegisterRequest(sourceId, origin) ==
    Envelope("register", "r", sourceId, DEFAULT_MAIN_ID, origin, <<sourceId>>,
             NullVal, EncFalse, Now)

\* an application message as a frame writes it, payload already in transport form
AppMessage(key, targetId, value) ==
    Envelope("message", key, "ghost", targetId, GoodOrigin, <<"ghost">>,
             enCodeMessage(value), EncTrue, Now)

EnvRegisterEvents ==
    {Event(TRUE, RegisterRequest("ghost", GoodOrigin), "wB"),
     Event(TRUE, RegisterRequest("ghost", ""), "wB"),
     Event(TRUE, RegisterRequest("", GoodOrigin), "wB"),
     Event(TRUE, RegisterRequest("evil", BadOrigin), StrayWindow),
     Event(TRUE, RegisterRequest("evil", GoodOrigin), StrayWindow)}

EnvMessageEvents ==
    {Event(TRUE, AppMessage("k1", t, ObjVal(JsonX1)), "wB") : t \in {"main", "ghost"}}
    \cup {Event(TRUE, AppMessage("k2", t, ObjVal(JsonX2)), StrayWindow) :
            t \in {"main", "ghost"}}
    \cup {Event(TRUE, AppMessage("", "ghost", ObjVal(JsonX1)), "wB")}

EnvMalformedEvents ==
    {Event(FALSE, NoData, StrayWindow),
     Event(TRUE, [AppMessage("k1", "main", ObjVal(JsonX1)) EXCEPT !.type = ""], "wB"),
     Event(TRUE, [AppMessage("k1", "main", ObjVal(JsonX1)) EXCEPT !.type = "ping"], "wB")}

\* well-formed events dispatched at the hub around its teardown: a register request
\* and messages for the hub and for the frame that asked to register
TeardownEvents ==
    {Event(TRUE, RegisterRequest("ghost", GoodOrigin), "wB"),
     Event(TRUE, AppMessage("k1", DEFAULT_MAIN_ID, ObjVal(JsonX1)), "wB"),
     Event(TRUE, AppMessage("k1", "ghost", ObjVal(JsonX1)), "wB")}

\* two frames that register with a different `origin` each, one of them the
\* wildcard, and a message for each of them written by the other
ForwardEvents ==
    {Event(TRUE, RegisterRequest("ghost", GoodOrigin), "wB"),
     Event(TRUE, RegisterRequest("star", AnyOrigin), "wA"),
     Event(TRUE, AppMessage("k1", "ghost", ObjVal(JsonX1)), "wA"),
     Event(TRUE, AppMessage("k1", "star", ObjVal(JsonX1)), "wB")}

\* what the hub page sends to the two frames
ForwardSendInputs == {Partial(t, ObjVal(JsonX1)) : t \in {"ghost", "star"}}

\* events around a failing entry: a register request that is rejected, one that
\* is accepted, and a message for the hub's subscriber
FailureEvents ==
    {Event(TRUE, RegisterRequest("ghost", ""), "wB"),
     Event(TRUE, RegisterRequest("ghost", GoodOrigin), "wB"),
     Event(TRUE, AppMessage("k1", DEFAULT_MAIN_ID, ObjVal(JsonX1)), "wB")}

\* the payloads of the codec round trip: plain, transport-like and multi-byte text,
\* and a structured value
CodecValues ==
    {StrVal(TextHi), StrVal(TextLooksEncoded), StrVal(TextMultiByte), ObjVal(JsonX1)}

\* what the hub sends to its leaf in the round trip
CodecSendInputs == {Partial("childA", v) : v \in CodecValues}

\* the iframes the page removes from its document
Removable == {"wB"}

\* the register request of the frame that hub sends are addressed to
HubSendRegisterEvents ==
    {Event(TRUE, RegisterRequest("ghost", GoodOrigin), "wB")}

\* what the callers pass to sendMessage: a partial { targetId, data }, or (a leaf) an
\* envelope built beforehand, which has a key
HubSendInputs ==
    {Partial(t, ObjVal(JsonX1)) : t \in {"main", "ghost", ""}}

TreeHubSendInputs ==
    {Partial(t, ObjVal(JsonX1)) : t \in {"main"} \cup LeafIds}

PreBuilt(l, targetId) ==
    Envelope("message", "k1", l, targetId, LeafOrigin(l), << >>,
             enCodeMessage(ObjVal(JsonX1)), EncTrue, Now)

LeafSendInputs(l) ==
    {Partial(t, ObjVal(JsonX1)) : t \in {"main", l, ""}}
    \cup {PreBuilt(l, t) : t \in {"main"} \cup (LeafIds \ {l})}

----------------------------------------------------------------------------
(* Construction                                                            *)

\* the iframeId option a hub is constructed with: none, the reserved id, another id
RequestedIds == {"", DEFAULT_MAIN_ID, "hubX"}

\* the constructor without its `this.iframeId = DEFAULT_MAIN_ID` for a main page
ResolveIframeIdAsRequested(requested, mainPage) ==
    IF requested # "" THEN requested ELSE DEFAULT_MAIN_ID

\* constructor: this.iframeId for the option `requested`, where isMainPage() is
\* `mainPage`
ResolveIframeId(requested, mainPage) ==
    IF mainPage THEN DEFAULT_MAIN_ID
    ELSE IF requested # "" THEN requested ELSE DEFAULT_MAIN_ID

\* constructor: its warning when it overrides the requested id
ConstructorLog(requested, mainPage) ==
    IF mainPage /\ requested \notin {"", DEFAULT_MAIN_ID}
    THEN <<"warn: iframeId is forced to main">>
    ELSE << >>

\* new IframeBridge({type: 'main', originWhitelist}): init() has called
\* registerIframe(registerMsg), which is suspended in handleRegister
HubInitRegister(whitelist) ==
    registerIframe(<<[source |-> NoWindow,
                      msg |-> createMessage(DEFAULT_MAIN_ID, HubOrigin,
                                            [Partial("", NullVal) EXCEPT
                                                !.sourceId = DEFAULT_MAIN_ID],
                                            "register")]>>,
                   << >>, FALSE, << >>, {}, whitelist)

Init ==
    /\ originWhitelist \in {<< >>, <<HubOrigin, GoodOrigin>>}
    /\ \E requested \in RequestedIds :
          /\ hubIframeId = ResolveIframeId(requested, TRUE)
          /\ fx = [op |-> "new", who |-> DEFAULT_MAIN_ID, msg |-> NoData,
                   posts |-> << >>,
                   log |-> ConstructorLog(requested, TRUE)
                             \o HubInitRegister(originWhitelist).log,
                   calls |-> << >>, thrown |-> ""]
    /\ messageCallback = [x \in Endpoints |-> FALSE]
    /\ messageCallbackReady = [x \in Endpoints |-> FALSE]
    /\ destroyed = FALSE
    /\ registeredIframe = HubInitRegister(originWhitelist).reg
    /\ messageQueue = << >>
    /\ registerQueue = << >>
    /\ isHandlingRegister = HubInitRegister(originWhitelist).busy
    /\ isHandlingMessage = FALSE
    /\ registerRun = HubInitRegister(originWhitelist).run
    /\ messageRun = IdleMessage
    /\ messageTicks = 0
    /\ leafUp = [l \in LeafIds |-> FALSE]
    /\ leafRun = [l \in LeafIds |-> << >>]
    /\ hubInbox = << >>
    /\ leafInbox = [l \in LeafIds |-> << >>]
    /\ dom = {WinOf(l) : l \in LeafIds}
    /\ delivered = [x \in Endpoints |-> << >>]
    /\ nEnv = 0
    /\ sendCalls = << >>

----------------------------------------------------------------------------
(* Hub: native events                                                      *)

\* receiveMessage
receiveMessage(e, hubIn) ==
    IF e.data.type = "register" THEN
        LET r == registerIframe(<< >>,
                                Append(registerQueue, [source |-> e.source, msg |-> e.data]),
                                isHandlingRegister, registeredIframe, dom, originWhitelist)
        IN /\ registerQueue' = r.pending
           /\ registeredIframe' = r.reg
           /\ isHandlingRegister' = r.busy
           /\ registerRun' = IF r.started THEN r.run ELSE registerRun
           /\ UNCHANGED <<messageQueue, messageTicks>>
           /\ Emit("event", DEFAULT_MAIN_ID, NoData, [NoFx EXCEPT !.log = r.log],
                   hubIn, leafInbox)
    ELSE IF e.data.type = "message" THEN
        /\ messageQueue' = Append(Append(messageQueue, e.data), e.data)
        /\ messageTicks' = messageTicks + 1
        /\ UNCHANGED <<registerQueue, registeredIframe, isHandlingRegister, registerRun>>
        /\ Emit("event", DEFAULT_MAIN_ID, NoData, NoFx, hubIn, leafInbox)
    ELSE
        /\ UNCHANGED <<registerQueue, registeredIframe, isHandlingRegister, registerRun,
                       messageQueue, messageTicks>>
        /\ Emit("event", DEFAULT_MAIN_ID, NoData,
                [NoFx EXCEPT !.log = <<"warn: unknown message type">>], hubIn, leafInbox)

\* the handler without its `_destroyed` test
HubHandleWindowMessageAfterDestroy(e, hubIn) ==
    /\ IF ~e.hasData \/ e.data.type = ""
       THEN /\ UNCHANGED <<registerQueue, registeredIframe, isHandlingRegister, registerRun,
                           messageQueue, messageTicks>>
            /\ Emit("event", DEFAULT_MAIN_ID, NoData, NoFx, hubIn, leafInbox)
       ELSE receiveMessage(e, hubIn)
    /\ UNCHANGED <<hubIframeId, originWhitelist, messageCallback, messageCallbackReady,
                   destroyed, isHandlingMessage,
                   messageRun, leafUp, leafRun, dom, sendCalls>>

\* _handleWindowMessageImpl of the hub, for an event taken from `inbox` (rest: hubIn)
HubHandleWindowMessage(e, hubIn) ==
    /\ IF destroyed \/ ~e.hasData \/ e.data.type = ""
       THEN /\ UNCHANGED <<registerQueue, registeredIframe, isHandlingRegister, registerRun,
                           messageQueue, messageTicks>>
            /\ Emit("event", DEFAULT_MAIN_ID, NoData, NoFx, hubIn, leafInbox)
       ELSE receiveMessage(e, hubIn)
    /\ UNCHANGED <<hubIframeId, originWhitelist, messageCallback, messageCallbackReady,
                   destroyed, isHandlingMessage,
                   messageRun, leafUp, leafRun, dom, sendCalls>>

\* the microtask queue of the hub window is empty: the browser may start a task
HubMicrotasksDone ==
    /\ registerRun.pc \in {"idle", "stuck"}
    /\ messageRun.pc = "idle"
    /\ messageTicks = 0

\* a surrounding frame dispatches a native event at the hub window
EnvDispatch(e) ==
    /\ nEnv < MaxEnvEvents
    /\ nEnv' = nEnv + 1
    /\ HubHandleWindowMessage([e EXCEPT !.data.timestamp = nEnv + 1], hubInbox)

\* the browser dispatches the next event posted to the hub window by a leaf
HubDispatch ==
    /\ hubInbox # << >>
    /\ HubMicrotasksDone
    /\ HubHandleWindowMessage(Head(hubInbox), Tail(hubInbox))
    /\ UNCHANGED nEnv

----------------------------------------------------------------------------
(* Hub: continuations of the two drains                                    *)

\* `await Promise.race([this.messageCallbackReady, Promise.resolve()])` can resume:
\* one member of the race is settled, and the second always is
RaceSettled(ready) == ready \/ TRUE

\* handleRegister resumes after `await Promise.race([...])`: notify or acknowledge
RegisterRace ==
    /\ registerRun.pc = "race"
    /\ RaceSettled(messageCallbackReady[DEFAULT_MAIN_ID])
    /\ registerRun' = [registerRun EXCEPT !.pc = "settle"]
    /\ LET f == IF registerRun.sourceId = DEFAULT_MAIN_ID
                THEN [NoFx EXCEPT !.calls =
                        IF messageCallback[DEFAULT_MAIN_ID]
                        THEN <<Call(DEFAULT_MAIN_ID, registerRun.successMsg)>>
                        ELSE << >>]
                ELSE HubSendMessage(registerRun.successMsg, registerRun.type,
                                    registeredIframe, dom)
       IN Emit("registerRace", DEFAULT_MAIN_ID, NoData, f,
               hubInbox, leafInbox)
    /\ UNCHANGED <<hubIframeId, originWhitelist, messageCallback, messageCallbackReady,
                   destroyed, registeredIframe,
                   messageQueue, registerQueue, isHandlingRegister, isHandlingMessage,
                   messageRun, messageTicks, leafUp, leafRun, dom, nEnv, sendCalls>>

\* registerIframe resumes after `await this.handleRegister(msg)`: next entry of its
\* snapshot, or the end of the loop
RegisterSettle ==
    /\ registerRun.pc = "settle"
    /\ LET loop == RegisterLoop(registerRun.queue, registeredIframe, dom, originWhitelist)
       IN /\ registerRun' = loop.run
          /\ registeredIframe' = loop.reg
          /\ isHandlingRegister' = loop.busy
          /\ Emit("registerSettle", DEFAULT_MAIN_ID, NoData,
                  [NoFx EXCEPT !.log =
                      (IF registerRun.error # ""
                       THEN <<"error: Iframe registration failed">> ELSE << >>)
                      \o loop.log],
                  hubInbox, leafInbox)
    /\ UNCHANGED <<hubIframeId, originWhitelist, messageCallback, messageCallbackReady,
                   destroyed, messageQueue, registerQueue,
                   isHandlingMessage, messageRun, messageTicks, leafUp, leafRun, dom,
                   nEnv, sendCalls>>

\* a scheduled `Promise.resolve().then(() => this.handleMessage())` runs
MessageTick ==
    /\ messageTicks > 0
    /\ messageTicks' = messageTicks - 1
    /\ IF isHandlingMessage
       THEN /\ UNCHANGED <<messageQueue, isHandlingMessage, messageRun>>
            /\ Emit("messageTick", DEFAULT_MAIN_ID, NoData, NoFx,
                    hubInbox, leafInbox)
       ELSE LET loop == MessageLoop(messageQueue, registeredIframe, dom, NoFx)
            IN /\ messageQueue' = loop.queue
               /\ messageRun' = loop.run
               /\ isHandlingMessage' = (loop.run.pc # "idle")
               /\ Emit("messageTick", DEFAULT_MAIN_ID, NoData, loop.fx,
                       hubInbox, leafInbox)
    /\ UNCHANGED <<hubIframeId, originWhitelist, messageCallback, messageCallbackReady,
                   destroyed, registeredIframe,
                   registerQueue, isHandlingRegister, registerRun, leafUp, leafRun, dom,
                   nEnv, sendCalls>>

\* handleMessage() resumes after `await Promise.resolve()`: the subscriber call, then
\* the rest of the loop
MessageResume ==
    /\ messageRun.pc = "await"
    /\ LET loop == MessageLoop(messageQueue, registeredIframe, dom,
                               [NoFx EXCEPT !.calls =
                                   IF messageCallback[DEFAULT_MAIN_ID]
                                   THEN <<Call(DEFAULT_MAIN_ID, messageRun.cur)>>
                                   ELSE << >>])
       IN /\ messageQueue' = loop.queue
          /\ messageRun' = loop.run
          /\ isHandlingMessage' = (loop.run.pc # "idle")
          /\ Emit("messageResume", DEFAULT_MAIN_ID, NoData, loop.fx,
                  hubInbox, leafInbox)
    /\ UNCHANGED <<hubIframeId, originWhitelist, messageCallback, messageCallbackReady,
                   destroyed, registeredIframe,
                   registerQueue, isHandlingRegister, registerRun, messageTicks, leafUp,
                   leafRun, dom, nEnv, sendCalls>>

\* handleRegister resumes for the hub's own registration and the subscriber raises:
\* the exception leaves the async executor of `new Promise(async (resolve, reject)
\* => ...)`, neither resolve nor reject is called, and the `await` of registerIframe
\* never returns
RegisterRaceThrows ==
    /\ registerRun.pc = "race"
    /\ RaceSettled(messageCallbackReady[DEFAULT_MAIN_ID])
    /\ registerRun.sourceId = DEFAULT_MAIN_ID
    /\ messageCallback[DEFAULT_MAIN_ID]
    /\ registerRun' = [registerRun EXCEPT !.pc = "stuck"]
    /\ Emit("registerRaceThrows", DEFAULT_MAIN_ID, NoData,
            [NoFx EXCEPT !.calls = <<Call(DEFAULT_MAIN_ID, registerRun.successMsg)>>],
            hubInbox, leafInbox)
    /\ UNCHANGED <<hubIframeId, originWhitelist, messageCallback, messageCallbackReady,
                   destroyed, registeredIframe,
                   messageQueue, registerQueue, isHandlingRegister, isHandlingMessage,
                   messageRun, messageTicks, leafUp, leafRun, dom, nEnv, sendCalls>>

\* handleMessage() resumes and the subscriber raises: the exception leaves the loop
\* through `finally`, which clears the flag; the rest of the queue stays
MessageResumeThrows ==
    /\ messageRun.pc = "await"
    /\ messageCallback[DEFAULT_MAIN_ID]
    /\ messageRun' = IdleMessage
    /\ isHandlingMessage' = FALSE
    /\ Emit("messageResumeThrows", DEFAULT_MAIN_ID, NoData,
            [NoFx EXCEPT !.calls = <<Call(DEFAULT_MAIN_ID, messageRun.cur)>>],
            hubInbox, leafInbox)
    /\ UNCHANGED <<hubIframeId, originWhitelist, messageCallback, messageCallbackReady,
                   destroyed, registeredIframe, messageQueue,
                   registerQueue, isHandlingRegister, registerRun, messageTicks, leafUp,
                   leafRun, dom, nEnv, sendCalls>>

----------------------------------------------------------------------------
(* Hub: public API                                                         *)

HubSend(message, type) ==
    /\ Len(sendCalls) < MaxSends
    /\ sendCalls' = Append(sendCalls,
                           [who |-> DEFAULT_MAIN_ID, msg |-> message,
                            ready |-> HasLiveWindow(registeredIframe, message.targetId,
                                                    dom)])
    /\ Emit("send", DEFAULT_MAIN_ID, message,
            HubSendMessage(message, type, registeredIframe, dom), hubInbox, leafInbox)
    /\ UNCHANGED <<hubVars, messageCallback, messageCallbackReady,
                   leafUp, leafRun, dom, nEnv>>

\* onMessage(callback) with a function
HubOnMessage ==
    /\ ~messageCallback[DEFAULT_MAIN_ID]
    /\ messageCallback' = [messageCallback EXCEPT ![DEFAULT_MAIN_ID] = TRUE]
    /\ messageCallbackReady' = [messageCallbackReady EXCEPT ![DEFAULT_MAIN_ID] = TRUE]
    /\ Emit("onMessage", DEFAULT_MAIN_ID, NoData, NoFx, hubInbox, leafInbox)
    /\ UNCHANGED <<hubVars, leafUp, leafRun, dom, nEnv, sendCalls>>

\* onMessage(callback) with an argument that is not a function
HubOnMessageNotFunction ==
    /\ Emit("onMessage", DEFAULT_MAIN_ID, NoData,
            [NoFx EXCEPT !.thrown = "onMessage callback must be a function"],
            hubInbox, leafInbox)
    /\ UNCHANGED <<hubVars, messageCallback, messageCallbackReady, leafUp, leafRun, dom,
                   nEnv, sendCalls>>

\* destroy() whose clearing of the table spares the hub's own record
destroyKeepsOwnRecord ==
    IF destroyed
    THEN UNCHANGED <<destroyed, messageCallback, messageCallbackReady,
                     messageQueue, registerQueue,
                     registeredIframe>>
    ELSE /\ destroyed' = TRUE
         /\ messageCallback' = [messageCallback EXCEPT ![DEFAULT_MAIN_ID] = FALSE]
         /\ messageCallbackReady' = [messageCallbackReady EXCEPT ![DEFAULT_MAIN_ID] = TRUE]
         /\ messageQueue' = << >>
         /\ registerQueue' = << >>
         /\ registeredIframe' =
                [id \in DOMAIN registeredIframe \cap {DEFAULT_MAIN_ID}
                    |-> registeredIframe[id]]

\* destroy() without its last line, `this.onMessageCallbackReady?.()`
destroyKeepsGate ==
    IF destroyed
    THEN UNCHANGED <<destroyed, messageCallback, messageCallbackReady, messageQueue,
                     registerQueue, registeredIframe>>
    ELSE /\ destroyed' = TRUE
         /\ messageCallback' = [messageCallback EXCEPT ![DEFAULT_MAIN_ID] = FALSE]
         /\ UNCHANGED messageCallbackReady
         /\ messageQueue' = << >>
         /\ registerQueue' = << >>
         /\ registeredIframe' = << >>

\* destroy() without its `if (this._destroyed) return`
destroyUnguarded ==
    /\ destroyed' = TRUE
    /\ messageCallback' = [messageCallback EXCEPT ![DEFAULT_MAIN_ID] = FALSE]
    /\ messageCallbackReady' = [messageCallbackReady EXCEPT ![DEFAULT_MAIN_ID] = TRUE]
    /\ messageQueue' = << >>
    /\ registerQueue' = << >>
    /\ registeredIframe' = << >>

\* destroy(): the flag, then the subscriber, both queues and the table are cleared
destroy ==
    IF destroyed
    THEN UNCHANGED <<destroyed, messageCallback, messageCallbackReady,
                     messageQueue, registerQueue,
                     registeredIframe>>
    ELSE /\ destroyed' = TRUE
         /\ messageCallback' = [messageCallback EXCEPT ![DEFAULT_MAIN_ID] = FALSE]
         /\ messageCallbackReady' = [messageCallbackReady EXCEPT ![DEFAULT_MAIN_ID] = TRUE]
         /\ messageQueue' = << >>
         /\ registerQueue' = << >>
         /\ registeredIframe' = << >>

HubDestroy ==
    /\ destroy
    /\ Emit("destroy", DEFAULT_MAIN_ID, NoData, NoFx, hubInbox, leafInbox)
    /\ UNCHANGED <<hubIframeId, originWhitelist, isHandlingRegister, isHandlingMessage,
                   registerRun,
                   messageRun, messageTicks, leafUp, leafRun, dom, nEnv, sendCalls>>

----------------------------------------------------------------------------
(* Leaves                                                                  *)

\* new IframeBridge({type: 'iframe', iframeId: l, origin}): init() sends the request
LeafConstruct(l) ==
    /\ ~leafUp[l]
    /\ leafUp' = [leafUp EXCEPT ![l] = TRUE]
    /\ LET registerMsg == createMessage(l, LeafOrigin(l), Partial(DEFAULT_MAIN_ID, NullVal),
                                        "register")
       IN Emit("new", l, NoData, LeafSendMessage(l, registerMsg, "message"),
               hubInbox, leafInbox)
    /\ UNCHANGED <<hubVars, messageCallback, messageCallbackReady,
                   leafRun, dom, nEnv, sendCalls>>

\* _handleWindowMessageImpl of a leaf, then handleMessage(e.data) up to its await
LeafDispatch(l) ==
    /\ leafInbox[l] # << >>
    /\ leafRun[l] = << >>
    /\ LET e == Head(leafInbox[l]) IN
       /\ leafRun' = [leafRun EXCEPT ![l] =
             IF leafUp[l] /\ e.hasData /\ e.data.type # ""
             THEN Append(@, [e.data EXCEPT !.path = addMessagePath(l, e.data.path),
                                           !.data = deCodeMessage(e.data.data)])
             ELSE @]
       /\ Emit("event", l, NoData, NoFx, hubInbox,
               [leafInbox EXCEPT ![l] = Tail(@)])
    /\ UNCHANGED <<hubVars, messageCallback, messageCallbackReady,
                   leafUp, dom, nEnv, sendCalls>>

\* handleMessage(message) of a leaf resumes after its await: the subscriber call
LeafResume(l) ==
    /\ leafRun[l] # << >>
    /\ leafRun' = [leafRun EXCEPT ![l] = Tail(@)]
    /\ Emit("leafResume", l, NoData,
            [NoFx EXCEPT !.calls = IF messageCallback[l]
                                   THEN <<Call(l, Head(leafRun[l]))>> ELSE << >>],
            hubInbox, leafInbox)
    /\ UNCHANGED <<hubVars, messageCallback, messageCallbackReady,
                   leafUp, dom, nEnv, sendCalls>>

LeafSend(l, message, type) ==
    /\ leafUp[l]
    /\ Len(sendCalls) < MaxSends
    /\ sendCalls' = Append(sendCalls,
                           [who |-> l, msg |-> message,
                            ready |-> /\ IsRegistered(registeredIframe, l)
                                      /\ messageCallback[DEFAULT_MAIN_ID]
                                      /\ ~destroyed])
    /\ Emit("send", l, message, LeafSendMessage(l, message, type),
            hubInbox, leafInbox)
    /\ UNCHANGED <<hubVars, messageCallback, messageCallbackReady,
                   leafUp, leafRun, dom, nEnv>>

LeafOnMessage(l) ==
    /\ leafUp[l]
    /\ ~messageCallback[l]
    /\ messageCallback' = [messageCallback EXCEPT ![l] = TRUE]
    /\ messageCallbackReady' = [messageCallbackReady EXCEPT ![l] = TRUE]
    /\ Emit("onMessage", l, NoData, NoFx, hubInbox, leafInbox)
    /\ UNCHANGED <<hubVars, leafUp, leafRun, dom, nEnv, sendCalls>>

----------------------------------------------------------------------------
(* The embedding page                                                      *)

\* the page removes an iframe element from its document
RemoveIframe(w) ==
    /\ w \in dom
    /\ dom' = dom \ {w}
    /\ Emit("removeIframe", "", NoData, NoFx, hubInbox, leafInbox)
    /\ UNCHANGED <<hubVars, messageCallback, messageCallbackReady,
                   leafUp, leafRun, nEnv, sendCalls>>

----------------------------------------------------------------------------

\* the steps of the hub that no native event and no caller starts
HubContinue ==
    \/ RegisterRace
    \/ RegisterSettle
    \/ MessageTick
    \/ MessageResume

\* registration at the hub: register requests dispatched at its window
NextRegistration ==
    \/ \E e \in EnvRegisterEvents : EnvDispatch(e)
    \/ RegisterRace
    \/ RegisterSettle
    \/ HubOnMessage
    \/ HubDestroy
    \/ \E w \in Removable : RemoveIframe(w)

SpecRegistration == Init /\ [][NextRegistration]_vars

\* the same, where the event loop runs every microtask that is ready: weak fairness
\* of RegisterRace and of RegisterSettle, the second written with the guard of the
\* action, `registerRun.pc = "settle"`, for its enabledness (a step that leaves that
\* position is a RegisterSettle step)
SpecRegistrationLive ==
    /\ SpecRegistration
    /\ WF_vars(RegisterRace)
    /\ []<>(registerRun.pc # "settle")

\* the message queue of the hub: application messages and malformed events
\* dispatched at its window
NextMessages ==
    \/ \E e \in EnvMessageEvents \cup EnvMalformedEvents : EnvDispatch(e)
    \/ HubContinue
    \/ HubOnMessage
    \/ HubDestroy

SpecMessages == Init /\ [][NextMessages]_vars

\* the teardown of the hub among register requests and application messages
NextTeardown ==
    \/ \E e \in TeardownEvents : EnvDispatch(e)
    \/ HubContinue
    \/ HubOnMessage
    \/ HubDestroy

SpecTeardown == Init /\ [][NextTeardown]_vars

\* everything the hub posts to the windows of its frames: acknowledgments, forwarded
\* messages and its own sends
NextForward ==
    \/ \E e \in ForwardEvents : EnvDispatch(e)
    \/ RegisterRace
    \/ RegisterSettle
    \/ MessageTick
    \/ \E m \in ForwardSendInputs : HubSend(m, "message")

SpecForward == Init /\ [][NextForward]_vars

\* the two drains of a hub whose subscriber may raise
NextFailures ==
    \/ \E e \in FailureEvents : EnvDispatch(e)
    \/ HubContinue
    \/ HubOnMessage
    \/ RegisterRaceThrows
    \/ MessageResumeThrows

SpecFailures == Init /\ [][NextFailures]_vars

\* sendMessage at the hub, towards a frame that may have registered
NextHubSend ==
    \/ \E e \in HubSendRegisterEvents : EnvDispatch(e)
    \/ RegisterRace
    \/ RegisterSettle
    \/ \E m \in HubSendInputs : HubSend(m, "message")
    \/ HubOnMessage
    \/ HubDestroy
    \/ \E w \in Removable : RemoveIframe(w)

SpecHubSend == Init /\ [][NextHubSend]_vars

\* the hub and the leaf endpoints `leaves`
NextOver(leaves) ==
    \/ HubDispatch
    \/ HubContinue
    \/ \E m \in TreeHubSendInputs : HubSend(m, "message")
    \/ HubOnMessage
    \/ \E l \in leaves : LeafConstruct(l)
    \/ \E l \in leaves : LeafDispatch(l)
    \/ \E l \in leaves : LeafResume(l)
    \/ \E l \in leaves : \E m \in LeafSendInputs(l) : LeafSend(l, m, "message")
    \/ \E l \in leaves : LeafOnMessage(l)

\* the hub and one leaf, and the hub's teardown
NextLeaf ==
    \/ NextOver(SoloLeaf)
    \/ HubOnMessageNotFunction
    \/ HubDestroy

SpecLeaf == Init /\ [][NextLeaf]_vars

\* the round trip of a payload: the hub sends it to its leaf, whose subscriber
\* receives what the leaf decoded
NextCodec ==
    \/ HubDispatch
    \/ RegisterRace
    \/ RegisterSettle
    \/ \E m \in CodecSendInputs : HubSend(m, "message")
    \/ \E l \in SoloLeaf : LeafConstruct(l)
    \/ \E l \in SoloLeaf : LeafDispatch(l)
    \/ \E l \in SoloLeaf : LeafResume(l)
    \/ \E l \in SoloLeaf : LeafOnMessage(l)

SpecCodec == Init /\ [][NextCodec]_vars

\* the hub and its two leaves
NextTree == NextOver(LeafIds)

SpecTree == Init /\ [][NextTree]_vars

----------------------------------------------------------------------------
(* Properties                                                              *)

\* the envelopes of type 'message' the subscriber of endpoint x was invoked with
MessagesDeliveredTo(x) ==
    {i \in 1..Len(delivered[x]) : delivered[x][i].type = "message"}

\* nothing is in flight towards the hub and the hub has nothing left to do
HubAtRest ==
    /\ hubInbox = << >>
    /\ HubMicrotasksDone
    /\ messageQueue = << >>

\* leaf l has called sendMessage({targetId: 'main', data: {x: 1}}, 'message') while
\* registered at a live hub that had a subscriber
C1_Sent(l) ==
    \E i \in 1..Len(sendCalls) :
        sendCalls[i] = [who |-> l, msg |-> Partial(DEFAULT_MAIN_ID, ObjVal(JsonX1)),
                        ready |-> TRUE]

C1_Received(l) ==
    \E i \in MessagesDeliveredTo(DEFAULT_MAIN_ID) :
        /\ delivered[DEFAULT_MAIN_ID][i].sourceId = l
        /\ delivered[DEFAULT_MAIN_ID][i].data = ObjVal(JsonX1)

\* C1: when a registered leaf L has called sendMessage({targetId: hub, data: v},
\* 'message') and the hub had a subscriber, then once the hub has nothing left to do
\* (and was not destroyed) its subscriber has been invoked with an envelope of type
\* 'message' whose sourceId is L and whose data equals v
C1_EndToEndLeafToHub ==
    \A l \in LeafIds :
        (C1_Sent(l) /\ HubAtRest /\ ~destroyed) => C1_Received(l)

\* C2: what the hub sends with sendMessage({targetId: B, data: v}) is posted to B's
\* window only, reaches only B's subscriber, and reaches it with data equal to v
C2_HubToLeafRouting ==
    /\ (fx.op = "send" /\ fx.who = DEFAULT_MAIN_ID /\ fx.msg.targetId \in LeafIds)
         => \A i \in 1..Len(fx.posts) : fx.posts[i].to = WinOf(fx.msg.targetId)
    /\ \A l \in LeafIds : \A i \in MessagesDeliveredTo(l) :
         delivered[l][i].sourceId = DEFAULT_MAIN_ID
           => /\ delivered[l][i].targetId = l
              /\ delivered[l][i].data = ObjVal(JsonX1)

\* C3: the hub's subscriber receives the messages addressed to the hub in the order
\* their events arrived (the model stamps each event with its arrival number)
C3_FifoDelivery ==
    \A i, j \in MessagesDeliveredTo(DEFAULT_MAIN_ID) :
        i < j => delivered[DEFAULT_MAIN_ID][i].timestamp
                   <= delivered[DEFAULT_MAIN_ID][j].timestamp

\* two events addressed to the hub have arrived and both have been delivered
C3_Witness ==
    /\ \E i, j \in MessagesDeliveredTo(DEFAULT_MAIN_ID) :
          /\ i < j
          /\ delivered[DEFAULT_MAIN_ID][i].timestamp = 1
          /\ delivered[DEFAULT_MAIN_ID][j].timestamp = 2
    /\ delivered[DEFAULT_MAIN_ID][1].type = "message"
    /\ nEnv = 2

\* C4: no message event addressed to the hub causes more than one invocation of the
\* hub's subscriber
C4_NoDuplicateDelivery ==
    \A i, j \in MessagesDeliveredTo(DEFAULT_MAIN_ID) :
        i # j => delivered[DEFAULT_MAIN_ID][i].timestamp
                   # delivered[DEFAULT_MAIN_ID][j].timestamp

InWhitelist(origin) ==
    \E i \in 1..Len(originWhitelist) : originWhitelist[i] = origin

\* C5: under a non-empty allow-list every record of the routing table has an origin
\* on the list, and no register event whose origin is off the list creates a record
\* (the frame of origin BadOrigin alone registers as "evil")
C5_AllowListOnRegistration ==
    originWhitelist # << >> =>
        /\ \A id \in DOMAIN registeredIframe : InWhitelist(registeredIframe[id].origin)
        /\ ~IsRegistered(registeredIframe, "evil")

\* a well-formed register request of "ghost" is waiting at a hub without allow-list
C6_Pending ==
    /\ originWhitelist = << >>
    /\ \E i \in 1..Len(registerQueue) :
          /\ registerQueue[i].msg.sourceId = "ghost"
          /\ registerQueue[i].msg.origin # ""

\* C6: at a hub without allow-list a register request with a valid source id
\* eventually produces a record (unless the hub is destroyed first)
C6_RegistersEventually ==
    C6_Pending ~> (IsRegistered(registeredIframe, "ghost") \/ destroyed)

\* C7: under a non-empty allow-list a message event whose origin is off the list is
\* neither queued, nor delivered to the hub's subscriber, nor forwarded (the frame of
\* origin BadOrigin alone writes messages with key "k2")
C7_AllowListOnMessages ==
    originWhitelist # << >> =>
        /\ \A i \in 1..Len(messageQueue) : messageQueue[i].key # "k2"
        /\ messageRun.cur.key # "k2"
        /\ \A i \in 1..Len(delivered[DEFAULT_MAIN_ID]) :
              delivered[DEFAULT_MAIN_ID][i].key # "k2"
        /\ \A i \in 1..Len(fx.posts) : fx.posts[i].data.key # "k2"

\* the step starts handling a register request: the first of a drain, or the next
StartsHandlingRegister ==
    /\ registerRun'.pc # "idle"
    /\ \/ fx'.op = "registerSettle"
       \/ fx'.op = "event" /\ fx'.who = DEFAULT_MAIN_ID /\ registerRun.pc = "idle"

\* C8: a record, once made, stays as it is until destroy() empties the table; a
\* register request for an id that has a record is rejected, as already registered
\* when the request is otherwise acceptable, and changes nothing in the table
C8_RegistrationTerminal ==
    [][/\ \/ \A id \in DOMAIN registeredIframe :
                /\ id \in DOMAIN registeredIframe'
                /\ registeredIframe'[id] = registeredIframe[id]
          \/ destroyed' /\ ~destroyed /\ registeredIframe' = << >>
       /\ (StartsHandlingRegister /\ IsRegistered(registeredIframe, registerRun'.sourceId))
            => /\ registerRun'.error # ""
               /\ registeredIframe' = registeredIframe
               /\ (registerRun'.origin # ""
                   /\ (originWhitelist = << >> \/ InWhitelist(registerRun'.origin)))
                     => registerRun'.error = "Iframe already registered"]_vars

\* "ghost" registered, and a second request for "ghost" has just been rejected
C8_Witness ==
    /\ IsRegistered(registeredIframe, "ghost")
    /\ registerRun.pc = "settle"
    /\ registerRun.sourceId = "ghost"
    /\ registerRun.error = "Iframe already registered"

\* C9: sendMessage to the caller's own id, at the hub or at a leaf, logs the warning,
\* posts nothing and invokes no subscriber
C9_SelfSendRejected ==
    (fx.op = "send" /\ fx.msg.targetId = fx.who)
        => /\ fx.log = <<"warn: send to itself">>
           /\ fx.posts = << >>
           /\ fx.calls = << >>

\* a constructed leaf with a subscriber has just sent to itself
C9_Witness ==
    /\ fx.op = "send"
    /\ fx.who \in LeafIds
    /\ fx.msg.targetId = fx.who
    /\ messageCallback[fx.who]
    /\ fx.log = <<"warn: send to itself">>

\* C10: sendMessage at the hub to an id other than its own that has no record posts
\* nothing, invokes no subscriber, logs the warning, and leaves the routing table
\* and both queues as they are
C10_UnregisteredTargetDropped ==
    [][(/\ fx'.op = "send"
        /\ fx'.who = DEFAULT_MAIN_ID
        /\ fx'.msg.targetId \notin {"", DEFAULT_MAIN_ID}
        /\ ~IsRegistered(registeredIframe, fx'.msg.targetId))
          => /\ fx'.posts = << >>
             /\ fx'.calls = << >>
             /\ fx'.log = <<"warn: target not found or not bound">>
             /\ UNCHANGED <<registeredIframe, messageQueue, registerQueue, delivered,
                            hubInbox, leafInbox>>]_vars

\* the hub has just sent to "ghost", which has no record
C10_Witness ==
    /\ fx.op = "send"
    /\ fx.who = DEFAULT_MAIN_ID
    /\ fx.msg.targetId = "ghost"
    /\ ~IsRegistered(registeredIframe, "ghost")
    /\ ~destroyed

\* C11: every envelope a subscriber is invoked with has a path that ends with the id
\* of the receiving endpoint and names no endpoint twice, also when the receiver is
\* the hub; an envelope one leaf sent to another leaf through the hub arrives with
\* the path <<sender, hub, receiver>>
C11_PathAccumulation ==
    \A x \in Endpoints : \A i \in 1..Len(delivered[x]) :
        LET p == delivered[x][i].path IN
        /\ p # << >>
        /\ p[Len(p)] = x
        /\ \A a, b \in 1..Len(p) : a # b => p[a] # p[b]
        /\ (x \in LeafIds /\ delivered[x][i].sourceId \in LeafIds \ {x})
              => p = <<delivered[x][i].sourceId, DEFAULT_MAIN_ID, x>>

\* the hub has finished every step it had started and nothing is on its way to leaf l
C12_Settled(l) ==
    /\ HubAtRest
    /\ leafInbox[l] = << >>
    /\ leafRun[l] = << >>

C12_Acknowledged(x) ==
    \E i \in 1..Len(delivered[x]) :
        /\ delivered[x][i].type = "register"
        /\ delivered[x][i].targetId = x

\* C12: a registration acknowledgment that reached an endpoint before its subscriber
\* was installed is not lost: once the hub (never destroyed) has a subscriber and has
\* nothing left to do, its subscriber has been invoked with the acknowledgment of
\* the hub's own registration; once a registered leaf has a subscriber and nothing
\* is on its way to it, its subscriber has been invoked with its acknowledgment
C12_LateSubscription ==
    /\ (messageCallback[DEFAULT_MAIN_ID] /\ ~destroyed /\ HubAtRest)
          => C12_Acknowledged(DEFAULT_MAIN_ID)
    /\ \A l \in LeafIds :
          (messageCallback[l] /\ IsRegistered(registeredIframe, l) /\ C12_Settled(l))
              => C12_Acknowledged(l)

\* C13: a native event handled by the hub after destroy() is ignored: it is not
\* queued, makes no record, starts no drain, posts nothing and invokes no subscriber,
\* whether or not a subscriber was installed after the teardown
C13_IgnoredAfterDestroy ==
    [][(destroyed /\ fx'.op = "event" /\ fx'.who = DEFAULT_MAIN_ID)
          => /\ UNCHANGED <<messageQueue, registerQueue, registeredIframe,
                            isHandlingRegister, isHandlingMessage, registerRun,
                            messageRun, messageTicks, messageCallback,
                            messageCallbackReady, delivered,
                            hubInbox, leafInbox>>
             /\ fx'.posts = << >>
             /\ fx'.calls = << >>
             /\ fx'.log = << >>]_vars

\* the hub was destroyed, a subscriber was installed afterwards, and a second
\* well-formed event has just been handled
C13_Witness ==
    /\ destroyed
    /\ messageCallback[DEFAULT_MAIN_ID]
    /\ fx.op = "event"
    /\ fx.who = DEFAULT_MAIN_ID
    /\ nEnv = 2

\* C14: destroy() on an endpoint that is already destroyed changes nothing: no field
\* of the hub, nothing in flight, no post, no log line, no subscriber invocation
C14_DestroyIdempotent ==
    [][(destroyed /\ fx'.op = "destroy")
          => /\ UNCHANGED <<hubVars, messageCallback, messageCallbackReady,
                            leafUp, leafRun, hubInbox,
                            leafInbox, dom, delivered, nEnv, sendCalls>>
             /\ fx'.posts = << >>
             /\ fx'.calls = << >>
             /\ fx'.log = << >>]_vars

\* destroy() has just been called on a destroyed hub on which a subscriber was
\* installed after the teardown
C14_Witness ==
    /\ destroyed
    /\ fx.op = "destroy"
    /\ messageCallback[DEFAULT_MAIN_ID]

\* C15, as amended: when destroy() returns from the call that tears the hub down
\* (the first one), both queues are empty, the routing table has no record, the
\* hub's own included, the subscriber is cleared, and the call has posted nothing
\* and invoked no subscriber
C15_TeardownByFirstCall ==
    [][(~destroyed /\ fx'.op = "destroy")
          => /\ destroyed'
             /\ messageQueue' = << >>
             /\ registerQueue' = << >>
             /\ DOMAIN registeredIframe' = {}
             /\ ~messageCallback'[DEFAULT_MAIN_ID]
             /\ fx'.posts = << >>
             /\ fx'.calls = << >>
             /\ UNCHANGED <<hubInbox, leafInbox, delivered>>]_vars

\* the hub has just been destroyed while the events of two messages were queued
\* and neither scheduled drain had run
C15_Witness ==
    /\ destroyed
    /\ fx.op = "destroy"
    /\ messageTicks = 2
    /\ messageQueue = << >>
    /\ DOMAIN registeredIframe = {}

\* C15: whenever destroy() has just returned, both queues are empty, the routing
\* table has no record, the subscriber is cleared and nothing was posted
C15_TeardownPostcondition ==
    fx.op = "destroy"
        => /\ messageQueue = << >>
           /\ registerQueue = << >>
           /\ DOMAIN registeredIframe = {}
           /\ ~messageCallback[DEFAULT_MAIN_ID]
           /\ fx.posts = << >>

\* the registration drain, the one pipeline that awaits the gate, is not in flight
\* and its busy flag is not set
C16_RegisterDrainDone ==
    /\ registerRun.pc = "idle"
    /\ ~isHandlingRegister

C17_CodecRoundTrip ==
    \A l \in LeafIds : \A i \in MessagesDeliveredTo(l) :
        delivered[l][i].sourceId = DEFAULT_MAIN_ID
          => \E k \in 1..Len(sendCalls) :
                /\ sendCalls[k].who = DEFAULT_MAIN_ID
                /\ sendCalls[k].msg.targetId = l
                /\ sendCalls[k].msg.data = delivered[l][i].data

\* C18: the identity of the hub is the reserved id 'main' in every state, whatever
\* iframeId its constructor was given, and it is the id of the hub's own record
\* until the teardown
C18_HubIdentityForced ==
    /\ hubIframeId = DEFAULT_MAIN_ID
    /\ ~destroyed => IsRegistered(registeredIframe, hubIframeId)

\* a hub has just been constructed with an iframeId other than 'main': the
\* constructor has warned and the identity is 'main'
C18_Witness ==
    /\ fx.op = "new"
    /\ fx.who = DEFAULT_MAIN_ID
    /\ \E i \in 1..Len(fx.log) : fx.log[i] = "warn: iframeId is forced to main"
    /\ hubIframeId = DEFAULT_MAIN_ID
    /\ IsRegistered(registeredIframe, hubIframeId)

\* C19: sendMessage of a message without targetId, at the hub or at a leaf, posts
\* nothing, invokes no subscriber and changes no state of any endpoint
C19_NoTargetNoOp ==
    [][(fx'.op = "send" /\ fx'.msg.targetId = "")
          => /\ fx'.posts = << >>
             /\ fx'.calls = << >>
             /\ UNCHANGED <<hubVars, messageCallback, messageCallbackReady, leafUp,
                            leafRun, hubInbox, leafInbox, delivered>>]_vars

\* C20: no call of sendMessage or onMessage throws, whatever its argument
C20_NoExceptionAcrossApi ==
    fx.op \in {"send", "onMessage"} => fx.thrown = ""

\* the one post of the step is the acknowledgment of the registration of x: a
\* register envelope of the hub for x, carrying the success marker, to x's window
C21_IsAck(p, x, w) ==
    /\ p.to = w
    /\ p.data.type = "register"
    /\ p.data.targetId = x
    /\ p.data.sourceId = DEFAULT_MAIN_ID
    /\ p.data.data = StrVal(SuccessText)

\* C21: every register request that succeeds for an id X other than the hub's (the
\* record of X was created, and the drain resumes after its await) is followed by
\* one register envelope that the hub posts to the window the request came from,
\* with targetId X, sourceId 'main' and the payload 'success'
C21_RegistrationAcknowledged ==
    [][(fx'.op = "registerRace" /\ registerRun.sourceId # DEFAULT_MAIN_ID)
          => /\ Len(fx'.posts) = 1
             /\ \E w \in {"wA", "wB", StrayWindow} :
                   C21_IsAck(fx'.posts[1], registerRun.sourceId, w)]_vars

\* the register notifications for the hub's own id its subscriber was invoked with
C22_OwnNotifications ==
    {i \in 1..Len(delivered[DEFAULT_MAIN_ID]) :
        /\ delivered[DEFAULT_MAIN_ID][i].type = "register"
        /\ delivered[DEFAULT_MAIN_ID][i].targetId = DEFAULT_MAIN_ID}

\* C22: until the teardown the routing table holds the hub's own record, made at
\* construction without a window; the hub's subscriber is never notified of it
\* twice, and once the startup registration has run and a subscriber is installed
\* (before or after it ran) the subscriber has been notified of it once
C22_HubSelfRegistration ==
    /\ ~destroyed
         => /\ IsRegistered(registeredIframe, DEFAULT_MAIN_ID)
            /\ registeredIframe[DEFAULT_MAIN_ID].iframe = NoWindow
    /\ Cardinality(C22_OwnNotifications) <= 1
    /\ (messageCallback[DEFAULT_MAIN_ID] /\ ~destroyed /\ registerRun.pc = "idle")
         => Cardinality(C22_OwnNotifications) = 1

\* queue `q` is the front of queue `r`: nothing was taken out of it
C23_NothingDequeued(q, r) ==
    /\ Len(q) <= Len(r)
    /\ SubSeq(r, 1, Len(q)) = q

\* C23: a drain loop of a queue is in flight exactly while the busy flag of the queue
\* is set, and a drain called while the flag is set returns at once: a register event
\* that arrives then is appended and the loop in flight, the table and the flag stay
\* as they are; a scheduled handleMessage() that runs then leaves the message queue
\* and the loop in flight as they are
C23_OneDrainPerQueue ==
    /\ []((registerRun.pc # "idle") <=> isHandlingRegister)
    /\ []((messageRun.pc # "idle") <=> isHandlingMessage)
    /\ [][/\ (fx'.op = "event" /\ isHandlingRegister)
               => /\ registerRun' = registerRun
                  /\ registeredIframe' = registeredIframe
                  /\ isHandlingRegister'
                  /\ C23_NothingDequeued(registerQueue, registerQueue')
          /\ (fx'.op = "messageTick" /\ isHandlingMessage)
               => /\ messageRun' = messageRun
                  /\ messageQueue' = messageQueue
                  /\ isHandlingMessage']_vars

\* a register event has arrived while a drain of the register queue was in flight:
\* it waits in the queue, which a drain that starts always empties
C23_Witness ==
    /\ fx.op = "event"
    /\ isHandlingRegister
    /\ registerRun.pc # "idle"
    /\ registerQueue # << >>

\* C24: no entry is left behind by a drain: when the busy flag of a queue is clear
\* and no call of its drain is scheduled, the queue is empty -- also for the
\* register events that arrive while the hub's own startup registration is in flight
C24_NoStrandedEntries ==
    /\ ~isHandlingRegister => registerQueue = << >>
    /\ (~isHandlingMessage /\ messageTicks = 0) => messageQueue = << >>

\* C25: registration is deferred: the step that handles a native event does not
\* change the routing table; a register request is only queued by it
C25_RegistrationDeferred ==
    [][fx'.op = "event" => registeredIframe' = registeredIframe]_vars

\* message m, taken from the queue, has no one to go to: its target is neither the
\* hub nor a record whose iframe is in the document
C26_UnknownTarget(m) ==
    /\ m.targetId # DEFAULT_MAIN_ID
    /\ ~HasLiveWindow(registeredIframe, m.targetId, dom)

\* C26: a step of the message drain only takes entries from the front of the queue
\* and puts none back; the drain ends with the queue empty; and an entry it takes
\* whose target is neither the hub nor a registered frame with a live window goes
\* nowhere: no window is posted it and no subscriber is called with it
C26_NoRetryForUnknownTargets ==
    [][fx'.op \in {"messageTick", "messageResume"}
         => LET k == Len(messageQueue) - Len(messageQueue') IN
            /\ k >= 0
            /\ messageQueue' = SubSeq(messageQueue, k + 1, Len(messageQueue))
            /\ messageRun'.pc = "idle" => messageQueue' = << >>
            /\ \A i \in 1..k :
                  C26_UnknownTarget(messageQueue[i])
                     => /\ \A j \in 1..Len(fx'.posts) :
                              \/ fx'.posts[j].data.key # messageQueue[i].key
                              \/ fx'.posts[j].data.timestamp # messageQueue[i].timestamp
                        /\ \A j \in 1..Len(fx'.calls) :
                              \/ fx'.calls[j].msg.key # messageQueue[i].key
                              \/ fx'.calls[j].msg.timestamp # messageQueue[i].timestamp]_vars

\* the drain has just dropped a message whose target has no record with a live
\* window: a warning, no post, and the queue is empty
C26_Witness ==
    /\ fx.op \in {"messageTick", "messageResume"}
    /\ \E i \in 1..Len(fx.log) : fx.log[i] = "warn: target not found or not bound"
    /\ fx.posts = << >>
    /\ messageQueue = << >>
    /\ messageRun.pc = "idle"

\* C27: every envelope the hub posts goes to the window of the record of its target
\* and is addressed with the origin stored in that record, the wildcard included
\* when that is what the record holds; no record has an empty origin to fall back
\* from
C27_ForwardingTargetOrigin ==
    /\ [](\A id \in DOMAIN registeredIframe : registeredIframe[id].origin # "")
    /\ [][\A j \in 1..Len(fx'.posts) :
            LET p == fx'.posts[j] IN
            p.from = "top"
              => /\ IsRegistered(registeredIframe, p.data.targetId)
                 /\ p.to = registeredIframe[p.data.targetId].iframe
                 /\ p.targetOrigin = registeredIframe[p.data.targetId].origin]_vars

\* the hub has just forwarded a message to "ghost", addressed with the origin of its
\* record, which is not the wildcard
C27_Witness ==
    /\ fx.op = "messageTick"
    /\ Len(fx.posts) > 0
    /\ fx.posts[1].data.targetId = "ghost"
    /\ fx.posts[1].data.type = "message"
    /\ fx.posts[1].targetOrigin = GoodOrigin
    /\ fx.posts[1].to = "wB"

\* the request the register drain is handling lacks its identity or its origin
C28_FieldMissing ==
    /\ registerRun.pc # "idle"
    /\ (registerRun.sourceId = "" \/ registerRun.origin = "")

\* C28: a register request without identity or without origin fails as an invalid
\* payload: it goes straight to the rejection, with no acknowledgment built, and the
\* step that takes it up leaves the routing table as it is and posts nothing; every
\* record of the table has a non-empty identity, its key, and a non-empty origin
C28_RequiredFields ==
    /\ [](\A id \in DOMAIN registeredIframe :
             /\ id # ""
             /\ registeredIframe[id].id = id
             /\ registeredIframe[id].origin # "")
    /\ [](C28_FieldMissing
             => /\ registerRun.error = "Invalid registration payload"
                /\ registerRun.pc = "settle"
                /\ registerRun.successMsg = NoData)
    /\ [][(C28_FieldMissing' /\ registerRun' # registerRun)
             => /\ registeredIframe' = registeredIframe
                /\ fx'.posts = << >>
                /\ fx'.calls = << >>]_vars

\* the drain has taken up a request of "ghost" that has no origin, and rejected it
C28_Witness ==
    /\ registerRun.pc = "settle"
    /\ registerRun.sourceId = "ghost"
    /\ registerRun.origin = ""
    /\ registerRun.error = "Invalid registration payload"
    /\ ~IsRegistered(registeredIframe, "ghost")

\* C29: an event the hub does not take up (no data, no type, or a type that is
\* neither 'register' nor 'message': of the events of SpecMessages, those whose step
\* at a live hub schedules no drain) leaves the queues, the routing table, the busy
\* flags and the drains as they are, posts nothing, calls no subscriber and writes
\* nothing to the console
C29_MalformedIgnoredSilently ==
    [][(fx'.op = "event" /\ ~destroyed /\ messageTicks' = messageTicks)
         => /\ UNCHANGED <<registerQueue, messageQueue, registeredIframe,
                           isHandlingRegister, isHandlingMessage, registerRun,
                           messageRun>>
            /\ fx'.posts = << >>
            /\ fx'.calls = << >>
            /\ fx'.log = << >>]_vars

\* C30: a failure is the failure of one entry: each busy flag is set exactly while
\* its drain has a continuation to run (so a drain that failed has cleared its flag,
\* and no flag stays set with nothing to clear it), and the entries behind a failed
\* one do not wait for another event: with the message flag clear and no drain
\* scheduled, the message queue is empty
C30_FailuresPerEntry ==
    /\ isHandlingRegister <=> registerRun.pc \in {"race", "settle"}
    /\ isHandlingMessage <=> messageRun.pc = "await"
    /\ (~isHandlingMessage /\ messageTicks = 0) => messageQueue = << >>

\* the origin of the native events that carry the register requests of `id`: those
\* of "evil" are all dispatched from the stray window, the others from the window
\* of the second iframe
C31_EventOrigin(id) ==
    IF id = "evil" THEN WindowOrigin(StrayWindow) ELSE WindowOrigin("wB")

\* C31: the origin stored in the record of a frame is the origin of the native
\* event that carried its request, and under an allow-list that origin is on the
\* list, whatever origin the request declares in its envelope
C31_OriginProvenance ==
    \A id \in DOMAIN registeredIframe \ {DEFAULT_MAIN_ID} :
        /\ registeredIframe[id].origin = C31_EventOrigin(id)
        /\ originWhitelist # << >> => InWhitelist(C31_EventOrigin(id))

\* the endpoint that posts from window w
C32_Sender(w) ==
    IF w = "top" THEN DEFAULT_MAIN_ID ELSE IF w = "wA" THEN "childA" ELSE "childB"

\* m is a full envelope written by endpoint `id`
C32_Complete(m, id) ==
    /\ m.type \in {"register", "message"}
    /\ m.key # ""
    /\ m.sourceId # ""
    /\ m.targetId # ""
    /\ m.origin # ""
    /\ m.timestamp # NoTimestamp
    /\ InPath(id, m.path)

\* C32: every object an endpoint posts to a window is a full envelope: a type, a
\* key, source and target ids, an origin, a timestamp, and a path that holds the id
\* of the endpoint that posts it -- also when the caller passed only a target and a
\* payload
C32_WireEnvelopesComplete ==
    \A j \in 1..Len(fx.posts) :
        C32_Complete(fx.posts[j].data, C32_Sender(fx.posts[j].from))

\* d is a transport string of the codec: text that decodes, and that the codec
\* produces for what it decodes to
C33_IsTransport(d) ==
    /\ d.t = "str"
    /\ deCodeMessage(d) # NullVal
    /\ enCodeMessage(deCodeMessage(d)) = d

\* C33: every envelope of the Envelope Builder that an endpoint posts carries
\* encoded = true exactly when its data is a transport string of the codec, and
\* otherwise encoded = false
C33_EncodedFlagTruthful ==
    \A j \in 1..Len(fx.posts) :
        LET m == fx.posts[j].data IN
        m.key = "gen"
          => /\ m.encoded \in {EncTrue, EncFalse}
             /\ m.encoded = EncTrue <=> C33_IsTransport(m.data)

====
